---- MODULE Spec2Model ----
(***************************************************************************)
(* A model of src/src/database/vector_store.py: the TF-IDF VectorStore,    *)
(* its three persisted artifacts and the corpus directory it indexes.      *)
(*                                                                         *)
(* Texts are sequences of words.  Weights are fixed-point integers: idf   *)
(* values carry IdfScale units per 1.0 and similarities SimScale units    *)
(* per 1.0, both rounded, so that rankings can be compared exactly.        *)
(***************************************************************************)
EXTENDS Integers, Sequences, FiniteSets, TLC

(* ---------------------------------------------------------------------- *)
(* Bounds of the model                                                     *)
(* ---------------------------------------------------------------------- *)
MaxFiles == 2        \* chunk files me_chunk_1.txt .. me_chunk_<MaxFiles>.txt
MaxLimit == 2        \* query limits n_results range over 1..MaxLimit
MaxEnv   == 2        \* changes made from outside the process (corpus edits, artifact damage)

IdfScale == 4        \* fixed-point units per 1.0 of an idf weight
SimScale == 100      \* fixed-point units per 1.0 of a cosine similarity

(* ---------------------------------------------------------------------- *)
(* Words, texts and file names                                             *)
(* ---------------------------------------------------------------------- *)
WS == " "
ENGLISH_STOP_WORDS == {"the"}
Terms == {"fever", "cough", "rash"}

\* Raw contents a chunk file can have (before .strip()).
Texts ==
  { <<WS>>, <<"the">>, <<WS, "cough">>, <<"fever", "cough">> }

\* Query strings handed to query().
Queries == { <<"cough">>, <<"fever", "cough">>, <<"the", "rash">> }

ABSENT     == [kind |-> "absent"]
UNREADABLE == [kind |-> "unreadable"]
TextFile(t) == [kind |-> "text", raw |-> t]

FileIds == 1..MaxFiles
FileStates == {ABSENT, UNREADABLE} \cup { TextFile(t) : t \in Texts }

DOCS_DIR == "docs/clean"
CHROMA_COLLECTION_NAME == "medical_knowledge"

\* A file name is the sequence of its parts: "me_chunk_1.txt" is
\* <<"me_chunk_", "1", ".txt">>. BaseName(i) is the name of the i-th chunk.
BaseName(i) == <<"me_chunk_", ToString(i), ".txt">>
FileNames == { BaseName(i) : i \in FileIds }

\* os.path.join(DOCS_DIR, name)
FilePath(name) == [dir |-> DOCS_DIR, name |-> name]

\* The pattern of glob.glob: me_chunk_*.txt
MatchesPattern(name) ==
  /\ Len(name) >= 2
  /\ name[1] = "me_chunk_"
  /\ name[Len(name)] = ".txt"

\* Two names that both match me_chunk_*.txt and differ in a second ".txt":
\* "me_chunk_1.txt" and "me_chunk_1.txt.txt".
OddNames == { <<"me_chunk_", "1", ".txt">>, <<"me_chunk_", "1", ".txt", ".txt">> }

\* Variant: the pattern prefix is removed with the extension.
FileIdOfStripsPrefix(path) ==
  SelectSeq(path.name, LAMBDA part : part \notin {"me_chunk_", ".txt"})

\* os.path.basename(file_path).replace(".txt", ""): str.replace removes every
\* occurrence of ".txt", not only the extension.
FileIdOf(path) == SelectSeq(path.name, LAMBDA part : part # ".txt")

(* ---------------------------------------------------------------------- *)
(* str.strip() and the tokenizer of TfidfVectorizer(stop_words='english')  *)
(* ---------------------------------------------------------------------- *)
RECURSIVE LStrip(_)
LStrip(s) == IF s # <<>> /\ Head(s) = WS THEN LStrip(Tail(s)) ELSE s

RECURSIVE RStrip(_)
RStrip(s) ==
  IF s # <<>> /\ s[Len(s)] = WS THEN RStrip(SubSeq(s, 1, Len(s) - 1)) ELSE s

Strip(s) == RStrip(LStrip(s))

Analyze(text) ==
  SelectSeq(text, LAMBDA w : w # WS /\ w \notin ENGLISH_STOP_WORDS)

\* Term frequency of t in an analyzed text.
TermCount(toks, t) == Cardinality({ i \in 1..Len(toks) : toks[i] = t })

(* ---------------------------------------------------------------------- *)
(* The vectorizer                                                          *)
(* ---------------------------------------------------------------------- *)
ZeroRow == [t \in Terms |-> 0]

\* TfidfVectorizer(stop_words='english') before any fit.
NewVectorizer == [fitted |-> FALSE, idf |-> ZeroRow]

\* round(IdfScale * ln(k)) for k = 1..8
LnTable == <<0, 3, 4, 6, 6, 7, 8, 8>>

\* smooth idf: ln((1 + n) / (1 + df)) + 1
Idf(n, df) == LnTable[n + 1] - LnTable[df + 1] + IdfScale

DocFreq(documents, t) ==
  Cardinality({ i \in 1..Len(documents) : TermCount(Analyze(documents[i]), t) > 0 })

Vocabulary(documents) == { t \in Terms : DocFreq(documents, t) > 0 }

\* fit: the vocabulary and idf weights learnt from the documents; idf[t] = 0
\* stands for a term outside the vocabulary.
Fit(documents) ==
  [fitted |-> TRUE,
   idf |-> [t \in Terms |->
              IF DocFreq(documents, t) > 0
              THEN Idf(Len(documents), DocFreq(documents, t))
              ELSE 0]]

\* transform of one text: tf * idf per vocabulary term.  The L2 norm of the
\* row is divided out in CosineSimilarity.
Transform(vec, text) ==
  [t \in Terms |-> TermCount(Analyze(text), t) * vec.idf[t]]

NFeatures(vec) == Cardinality({ t \in Terms : vec.idf[t] > 0 })

NONE == [kind |-> "None"]
\* A sparse matrix: its rows and its number of columns.
Matrix(rows, ncols) == [kind |-> "csr", rows |-> rows, ncols |-> ncols]

\* fit_transform raises ValueError("empty vocabulary") when no document
\* contributes a term.
FitRaises(documents) == Vocabulary(documents) = {}

FitTransform(documents) ==
  LET fitted == Fit(documents)
  IN Matrix([i \in 1..Len(documents) |-> Transform(fitted, documents[i])],
            NFeatures(fitted))

(* ---------------------------------------------------------------------- *)
(* cosine_similarity and the ranking of query()                            *)
(* ---------------------------------------------------------------------- *)
RECURSIVE SumOver(_, _)
SumOver(S, f) ==
  IF S = {} THEN 0
  ELSE LET t == CHOOSE x \in S : TRUE IN f[t] + SumOver(S \ {t}, f)

Dot(a, b) == SumOver(Terms, [t \in Terms |-> a[t] * b[t]])

CeilDiv(a, b) == (a + b - 1) \div b

CeilSqrt(x) ==
  CHOOSE r \in 0..SimScale : r * r >= x /\ (r = 0 \/ (r - 1) * (r - 1) < x)

\* dot / (|a| * |b|) in SimScale units, rounded up; 0 when either norm is 0.
CosineSimilarity(a, b) ==
  IF Dot(a, a) = 0 \/ Dot(b, b) = 0 THEN 0
  ELSE CeilSqrt(CeilDiv(SimScale * SimScale * Dot(a, b) * Dot(a, b),
                        Dot(a, a) * Dot(b, b)))

\* cosine_similarity(query_vector, self.vectors).flatten()
Similarities(vec, vectors, query_text) ==
  [i \in 1..Len(vectors.rows) |->
     CosineSimilarity(Transform(vec, query_text), vectors.rows[i])]

\* The results numpy's argsort may give: every ordering of the indices with
\* ascending values (the default sort kind is not stable, so the order of
\* equal values is not fixed).
Argsort(sims) ==
  { p \in Permutations(DOMAIN sims) :
      \A i, j \in DOMAIN sims : i < j => sims[p[i]] <= sims[p[j]] }

Reverse(s) == [i \in 1..Len(s) |-> s[Len(s) + 1 - i]]

\* Variant: the slice is not reversed.
TopIndicesAscending(order, n_results) ==
  LET n == Len(order)
      from == IF n_results >= n THEN 1 ELSE n - n_results + 1
  IN SubSeq(order, from, n)

\* order[-n_results:][::-1]
TopIndices(order, n_results) ==
  LET n == Len(order)
      from == IF n_results >= n THEN 1 ELSE n - n_results + 1
  IN Reverse(SubSeq(order, from, n))

\* Variant: the filter is similarity >= 0.
RECURSIVE BuildResultsNonNegative(_, _, _)
BuildResultsNonNegative(document_data, sims, top) ==
  IF top = <<>> THEN <<>>
  ELSE LET idx == Head(top)
           rest == BuildResultsNonNegative(document_data, sims, Tail(top))
       IN IF sims[idx] >= 0
          THEN <<[content |-> document_data[idx].content,
                  metadata |-> document_data[idx].metadata,
                  id |-> document_data[idx].id,
                  similarity |-> sims[idx]]>> \o rest
          ELSE rest

RECURSIVE BuildResults(_, _, _)
BuildResults(document_data, sims, top) ==
  IF top = <<>> THEN <<>>
  ELSE LET idx == Head(top)
           rest == BuildResults(document_data, sims, Tail(top))
       IN IF sims[idx] > 0
          THEN <<[content |-> document_data[idx].content,
                  metadata |-> document_data[idx].metadata,
                  id |-> document_data[idx].id,
                  similarity |-> sims[idx]]>> \o rest
          ELSE rest

\* TRUE when the body of query() raises: an unfitted vectorizer, a matrix
\* whose width differs from the vocabulary, or an index past the records.
QueryRaises(vec, document_data, vectors, query_text, n_results, order) ==
  \/ ~vec.fitted
  \/ vectors.ncols # NFeatures(vec)
  \/ LET sims == Similarities(vec, vectors, query_text)
         top == TopIndices(order, n_results)
     IN \E k \in 1..Len(top) : sims[top[k]] > 0 /\ top[k] > Len(document_data)

\* What query() may return for a given in-memory index.
QueryOutcomes(vec, document_data, vectors, query_text, n_results) ==
  IF document_data = <<>> \/ vectors = NONE THEN { <<>> }
  ELSE IF ~vec.fitted \/ vectors.ncols # NFeatures(vec) THEN { <<>> }
  ELSE LET sims == Similarities(vec, vectors, query_text)
       IN { IF QueryRaises(vec, document_data, vectors, query_text, n_results, order)
            THEN <<>>
            ELSE BuildResults(document_data, sims, TopIndices(order, n_results))
            : order \in Argsort(sims) }

(* ---------------------------------------------------------------------- *)
(* The artifacts in DB_DIR                                                 *)
(* ---------------------------------------------------------------------- *)
MISSING == [kind |-> "missing"]
CORRUPT == [kind |-> "corrupt"]      \* truncated or otherwise unreadable bytes

\* pickle.dump(self.vectorizer, f)
PickleDump(vec) == [kind |-> "pickle", obj |-> vec]
\* json.dump(self.document_data, f)
JsonDump(records) == [kind |-> "json", obj |-> records]
\* np.save(path, arr): a scipy sparse matrix has no array form, np.asanyarray
\* wraps it in a 0-d array of dtype object, which is written as a pickle.
NpSave(arr) == [kind |-> "npy", dtype |-> "object", obj |-> arr]

\* pickle.load / json.load: raise on a missing or damaged file.
PickleLoad(file) ==
  IF file.kind = "pickle" THEN [raises |-> FALSE, value |-> file.obj]
  ELSE [raises |-> TRUE]

JsonLoad(file) ==
  IF file.kind = "json" THEN [raises |-> FALSE, value |-> file.obj]
  ELSE [raises |-> TRUE]

\* Variant: arrays of dtype object are unpickled and unwrapped.
NpLoadAllowPickle(file) ==
  IF file.kind = "npy"
  THEN [raises |-> FALSE, value |-> file.obj]
  ELSE [raises |-> TRUE]

\* np.load(path) with its default allow_pickle=False: raises ValueError on an
\* array of dtype object, as on a missing or damaged file.
NpLoad(file) ==
  IF file.kind = "npy" /\ file.dtype # "object"
  THEN [raises |-> FALSE, value |-> file.obj]
  ELSE [raises |-> TRUE]

Exists(file) == file # MISSING

\* The fields load_documents gives every record.
RecordFields == {"id", "content", "metadata"}

\* Record lists that are valid JSON and not of that shape: here an entry
\* without its metadata.
DeviantRecords ==
  { << [id |-> <<"me_chunk_", "1">>, content |-> <<"cough">>] >> }

EMPTY_INDEX ==
  [vectorizer |-> NewVectorizer, document_data |-> <<>>, vectors |-> NONE]

\* Variant: the except branch leaves in place what was read before the
\* failing read.
LoadModelKeepsRead(d) ==
  LET v == PickleLoad(d.vectorizer)
      r == JsonLoad(d.documents)
      m == NpLoad(d.vectors)
  IN [vectorizer |-> IF v.raises THEN NewVectorizer ELSE v.value,
      document_data |-> IF v.raises \/ r.raises THEN <<>> ELSE r.value,
      vectors |-> IF v.raises \/ r.raises \/ m.raises THEN NONE ELSE m.value]

\* load_model: the three reads in order; any exception resets all three
\* attributes.
LoadModelResult(d) ==
  LET v == PickleLoad(d.vectorizer)
      r == JsonLoad(d.documents)
      m == NpLoad(d.vectors)
  IN IF v.raises \/ r.raises \/ m.raises
     THEN EMPTY_INDEX
     ELSE [vectorizer |-> v.value, document_data |-> r.value, vectors |-> m.value]

\* __init__: load_model when the three files exist, else a new empty index.
ConstructResult(d) ==
  IF Exists(d.vectorizer) /\ Exists(d.documents) /\ Exists(d.vectors)
  THEN LoadModelResult(d)
  ELSE EMPTY_INDEX

\* How a save can go: at = 0 is a save without failure; at = k is an exception
\* while writing artifact k, either before the file is touched ("open") or
\* after it was truncated ("write").
NoFailure == [at |-> 0, how |-> "none"]
SaveFailures ==
  {NoFailure} \cup { [at |-> k, how |-> h] : k \in 1..3, h \in {"open", "write"} }

Written(old, new, k, fail) ==
  IF fail.at = 0 \/ fail.at > k THEN new
  ELSE IF fail.at = k /\ fail.how = "write" THEN CORRUPT
  ELSE old

\* A failure at artifact 3 needs a matrix to write.
CanFail(fail, vecs) == fail.at = 3 => vecs # NONE

\* save_model: the artifacts after the call.
SaveModelDisk(d, vec, records, vecs, fail) ==
  [vectorizer |-> Written(d.vectorizer, PickleDump(vec), 1, fail),
   documents  |-> Written(d.documents, JsonDump(records), 2, fail),
   vectors    |-> IF vecs = NONE THEN d.vectors
                  ELSE Written(d.vectors, NpSave(vecs), 3, fail)]

(* ---------------------------------------------------------------------- *)
(* The corpus directory                                                    *)
(* ---------------------------------------------------------------------- *)
\* glob.glob(DOCS_DIR/me_chunk_*.txt): the existing chunk files, in the order
\* the file system enumerates them.
Glob(dir) ==
  LET present == { name \in DOMAIN dir :
                     MatchesPattern(name) /\ dir[name] # ABSENT }
  IN { order \in [1..Cardinality(present) -> present] :
         \A a, b \in 1..Cardinality(present) : a # b => order[a] # order[b] }

\* Variant: the emptiness test looks at the content before strip().
RetainedUnstripped(file) == file.kind = "text" /\ file.raw # <<>>

\* A file yields a record when open/read succeed and the stripped content is
\* non-empty ("if content:"); the except branch skips a file that cannot be
\* read.
Retained(file) == file.kind = "text" /\ Strip(file.raw) # <<>>

\* The loop over chunk_files: one record per retained file.
RECURSIVE ReadChunks(_, _)
ReadChunks(dir, chunk_files) ==
  IF chunk_files = <<>> THEN <<>>
  ELSE LET name == Head(chunk_files)
           rest == ReadChunks(dir, Tail(chunk_files))
       IN IF Retained(dir[name])
          THEN <<[id |-> FileIdOf(FilePath(name)),
                  content |-> Strip(dir[name].raw),
                  metadata |-> [source |-> FilePath(name)]]>> \o rest
          ELSE rest

Contents(records) == [i \in 1..Len(records) |-> records[i].content]

(* ---------------------------------------------------------------------- *)
(* A reload and a query that run in two threads                            *)
(* ---------------------------------------------------------------------- *)
\* No load_documents in progress.
IdleReload ==
  [pc |-> "idle", force_reload |-> FALSE, records |-> <<>>, matrix |-> NONE]

\* What a query has read of the instance: the records and the matrix.
View(records, matrix) == [records |-> records, vectors |-> matrix]

\* No query in progress, none made yet.
IdleReader ==
  [pc |-> "idle", query_text |-> <<>>, n_results |-> 0,
   query_vector |-> ZeroRow, width |-> 0, sims |-> <<>>, scored |-> NONE,
   view |-> View(<<>>, NONE)]

\* cosine_similarity(query_vector, self.vectors).flatten() for a query vector
\* that was computed before.
SimilaritiesOf(query_vector, matrix) ==
  [i \in 1..Len(matrix.rows) |-> CosineSimilarity(query_vector, matrix.rows[i])]

(* ---------------------------------------------------------------------- *)
(* The session store RedisMemory: values, keys and JSON                    *)
(* ---------------------------------------------------------------------- *)
MaxCalls == 4        \* calls of the session store and changes of the caller's objects
MaxMessages == 1     \* length of a chat history

Users == {"u1", "u2"}

\* f"case:{user_id}", f"chat:{user_id}", f"user:{user_id}"
Key(kind, user_id) == <<kind, ":", user_id>>
Keys == { Key(kind, user_id) : kind \in {"case", "chat", "user"}, user_id \in Users }

\* Python values inside a saved object: an int, a datetime, the str that
\* isoformat() makes of a datetime, the float of time.time(), and a key that
\* is not in the dict.
IntValue == [t |-> "int", x |-> "1"]
DateTime == [t |-> "datetime", x |-> "2024-05-01T10:00:00"]
Now == [t |-> "float", x |-> "now"]
NoItem == [t |-> "absent", x |-> ""]
Values == {IntValue, DateTime}

\* A dict with the keys "note" and (if present) "updated_at"; a list.
Dict(note, updated_at) ==
  [kind |-> "dict", note |-> note, updated_at |-> updated_at]
List(items) == [kind |-> "list", items |-> items]

\* The objects of the caller: a dict and a list.
Refs == {"case_data", "messages"}

\* DateTimeEncoder.default: a datetime becomes obj.isoformat()
DateTimeEncoder(v) == IF v.t = "datetime" THEN [t |-> "str", x |-> v.x] ELSE v

\* json.dumps(value, cls=DateTimeEncoder): the text of a snapshot of the value
JsonDumps(value) ==
  [kind |-> "json",
   obj |-> IF value.kind = "dict"
           THEN Dict(DateTimeEncoder(value.note), DateTimeEncoder(value.updated_at))
           ELSE List([i \in 1..Len(value.items) |-> DateTimeEncoder(value.items[i])])]

\* json.loads(data)
JsonLoads(data) == data.obj

\* A dict entry that is the caller's object itself.
Reference(ref) == [kind |-> "ref", to |-> ref]

\* redis.get of a key that was never set; dict.get of a key that is not there.
NIL == [kind |-> "nil"]

(* ---------------------------------------------------------------------- *)
(* State                                                                   *)
(* ---------------------------------------------------------------------- *)
VARIABLES
  vectorizer,      \* self.vectorizer
  document_data,   \* self.document_data
  vectors,         \* self.vectors
  disk,            \* the three artifacts in DB_DIR
  corpus,          \* the chunk files in DOCS_DIR
  call,            \* the operation that ran last, with its arguments
  ret,             \* what it returned, or the exception it let through
  partial,         \* history: some save stopped after writing some artifacts, not all
  env,             \* number of outside changes so far
  reload,          \* a load_documents in progress in one thread: its position and locals
  reader,          \* a query in progress in another thread: its position and locals
  heap,            \* the objects the caller of RedisMemory holds and hands to it
  redis_db,        \* the keys of the Redis server
  fallback_storage,\* self.fallback_storage of a RedisMemory without Redis
  saved,           \* history: the value each key had when it was last saved
  calls            \* number of session store calls and caller changes so far

\* The two threads that share one VectorStore, and the session store.
threads == <<reload, reader>>
memory == <<heap, redis_db, fallback_storage, saved, calls>>

\* The vector store, its artifacts and its corpus.
store == <<vectorizer, document_data, vectors, disk, corpus, partial, env>>

vars == <<vectorizer, document_data, vectors, disk, corpus, call, ret,
          partial, env, threads, memory>>

index == [vectorizer |-> vectorizer, document_data |-> document_data,
          vectors |-> vectors]

RETURNED(v) == [kind |-> "return", value |-> v]
RAISED(e)   == [kind |-> "raise", value |-> e]
None == "None"

NO_DISK == [vectorizer |-> MISSING, documents |-> MISSING, vectors |-> MISSING]

\* A new VectorStore over an empty artifact directory, beside a corpus
\* directory in which files of the given names can appear.
InitOver(names) ==
  /\ vectorizer = NewVectorizer
  /\ document_data = <<>>
  /\ vectors = NONE
  /\ disk = NO_DISK
  /\ corpus = [name \in names |-> ABSENT]
  /\ call = [op |-> "__init__"]
  /\ ret = RETURNED(None)
  /\ partial = FALSE
  /\ env = 0
  /\ reload = IdleReload
  /\ reader = IdleReader
  /\ heap = [r \in Refs |-> IF r = "case_data" THEN Dict(IntValue, NoItem)
                                               ELSE List(<<>>)]
  /\ redis_db = [key \in Keys |-> NIL]
  /\ fallback_storage = [key \in Keys |-> NIL]
  /\ saved = [key \in Keys |-> NIL]
  /\ calls = 0

Init == InitOver(FileNames)

(* ---------------------------------------------------------------------- *)
(* Operations of VectorStore                                               *)
(* ---------------------------------------------------------------------- *)
\* count(): len(self.document_data)
count == Len(document_data)

\* get_status()
get_status ==
  [collection_name |-> CHROMA_COLLECTION_NAME,
   document_count |-> count,
   embedding_model |-> "scikit-learn TF-IDF"]

\* A new process constructs a VectorStore over the artifacts on disk.
Construct ==
  /\ vectorizer' = ConstructResult(disk).vectorizer
  /\ document_data' = ConstructResult(disk).document_data
  /\ vectors' = ConstructResult(disk).vectors
  /\ call' = [op |-> "__init__"]
  /\ ret' = RETURNED(None)
  /\ UNCHANGED <<disk, corpus, partial, env>>
  /\ UNCHANGED <<threads, memory>>

LoadModel ==
  /\ vectorizer' = LoadModelResult(disk).vectorizer
  /\ document_data' = LoadModelResult(disk).document_data
  /\ vectors' = LoadModelResult(disk).vectors
  /\ call' = [op |-> "load_model"]
  /\ ret' = RETURNED(None)
  /\ UNCHANGED <<disk, corpus, partial, env>>
  /\ UNCHANGED <<threads, memory>>

Outcome(fail) == IF fail.at = 0 THEN "saved" ELSE "failed"

\* History: a save that stops at artifact 2 or 3 has written some artifacts
\* and not all of them.
SaveHistory(fail) == partial' = (partial \/ fail.at > 1)

\* Variant: a failed save resets the in-memory index, as the except branch of
\* load_model does.
SaveModelResetsOnFailure(fail) ==
  /\ CanFail(fail, vectors)
  /\ disk' = SaveModelDisk(disk, vectorizer, document_data, vectors, fail)
  /\ SaveHistory(fail)
  /\ call' = [op |-> "save_model", save |-> Outcome(fail)]
  /\ ret' = RETURNED(None)
  /\ IF fail.at = 0
     THEN UNCHANGED <<vectorizer, document_data, vectors>>
     ELSE /\ vectorizer' = NewVectorizer
          /\ document_data' = <<>>
          /\ vectors' = NONE
  /\ UNCHANGED <<corpus, env>>
  /\ UNCHANGED <<threads, memory>>

SaveModel(fail) ==
  /\ CanFail(fail, vectors)
  /\ disk' = SaveModelDisk(disk, vectorizer, document_data, vectors, fail)
  /\ SaveHistory(fail)
  /\ call' = [op |-> "save_model", save |-> Outcome(fail)]
  /\ ret' = RETURNED(None)
  /\ UNCHANGED <<vectorizer, document_data, vectors, corpus, env>>
  /\ UNCHANGED <<threads, memory>>

\* Variant: the early return needs more than one document.
SkipsAboveOne(force_reload, n) == ~force_reload /\ n > 1

\* The early return of load_documents: not force_reload and self.count() > 0
Skips(force_reload, n) == ~force_reload /\ n > 0

\* Variant: the forced reset drops the records and keeps the matrix.
ForceResetKeepsVectors(force_reload, idx) ==
  IF force_reload THEN [idx EXCEPT !.document_data = <<>>] ELSE idx

\* "Reset if force reload": the records and the matrix are dropped, the
\* vectorizer is kept.
ForceReset(force_reload, idx) ==
  IF force_reload
  THEN [idx EXCEPT !.document_data = <<>>, !.vectors = NONE]
  ELSE idx

\* load_documents(force_reload) when it returns at once.
LoadDocumentsSkip(force_reload) ==
  /\ Skips(force_reload, count)
  /\ call' = [op |-> "load_documents", force_reload |-> force_reload,
              scanned |-> FALSE, save |-> "none"]
  /\ ret' = RETURNED(None)
  /\ UNCHANGED <<vectorizer, document_data, vectors, disk, corpus,
                 partial, env>>
  /\ UNCHANGED <<threads, memory>>

\* load_documents(force_reload) when it scans the corpus: chunk_files is what
\* glob returned, fail is how the save goes if it is reached.
LoadDocumentsScan(force_reload, chunk_files, fail) ==
  LET records == ReadChunks(corpus, chunk_files)
      documents == Contents(records)
      fitted == Fit(documents)
      matrix == FitTransform(documents)
      reset_data == ForceReset(force_reload, index).document_data
      reset_vectors == ForceReset(force_reload, index).vectors
  IN /\ ~Skips(force_reload, count)
     /\ IF documents # <<>>
        THEN IF FitRaises(documents)
             THEN /\ fail = NoFailure
                  /\ document_data' = reset_data
                  /\ vectors' = reset_vectors
                  /\ ret' = RAISED("ValueError")
                  /\ call' = [op |-> "load_documents",
                              force_reload |-> force_reload,
                              scanned |-> TRUE, save |-> "none"]
                  /\ UNCHANGED <<vectorizer, disk, partial>>
             ELSE /\ CanFail(fail, matrix)
                  /\ vectorizer' = fitted
                  /\ vectors' = matrix
                  /\ document_data' = records
                  /\ disk' = SaveModelDisk(disk, fitted, records, matrix, fail)
                  /\ SaveHistory(fail)
                  /\ ret' = RETURNED(None)
                  /\ call' = [op |-> "load_documents",
                              force_reload |-> force_reload,
                              scanned |-> TRUE, save |-> Outcome(fail)]
        ELSE /\ fail = NoFailure
             /\ document_data' = reset_data
             /\ vectors' = reset_vectors
             /\ ret' = RETURNED(None)
             /\ call' = [op |-> "load_documents",
                         force_reload |-> force_reload,
                         scanned |-> TRUE, save |-> "none"]
             /\ UNCHANGED <<vectorizer, disk, partial>>
     /\ UNCHANGED <<corpus, env>>
     /\ UNCHANGED <<threads, memory>>

LoadDocuments(force_reload) ==
  \/ LoadDocumentsSkip(force_reload)
  \/ \E chunk_files \in Glob(corpus), fail \in SaveFailures :
       LoadDocumentsScan(force_reload, chunk_files, fail)

\* Variant: the query vector is made with fit_transform, which refits the
\* vectorizer on the query text.
QueryRefits(query_text, n_results) ==
  /\ ret' \in { RETURNED(r) :
                  r \in QueryOutcomes(vectorizer, document_data, vectors,
                                      query_text, n_results) }
  /\ call' = [op |-> "query", query_text |-> query_text,
              n_results |-> n_results]
  /\ vectorizer' = IF document_data = <<>> \/ vectors = NONE
                      \/ FitRaises(<<query_text>>)
                   THEN vectorizer
                   ELSE Fit(<<query_text>>)
  /\ UNCHANGED <<document_data, vectors, disk, corpus, partial, env>>
  /\ UNCHANGED <<threads, memory>>

\* Variant: query without the empty-index check and without the try block.
QueryUnguarded(query_text, n_results) ==
  /\ ret' \in IF document_data = <<>> \/ vectors = NONE
              THEN { RAISED("NotFittedError") }
              ELSE { RETURNED(r) :
                       r \in QueryOutcomes(vectorizer, document_data, vectors,
                                           query_text, n_results) }
  /\ call' = [op |-> "query", query_text |-> query_text,
              n_results |-> n_results]
  /\ UNCHANGED <<vectorizer, document_data, vectors, disk, corpus,
                 partial, env>>
  /\ UNCHANGED <<threads, memory>>

\* query(query_text, n_results): the results, or [] on an empty index or on
\* any exception.
Query(query_text, n_results) ==
  /\ ret' \in { RETURNED(r) :
                  r \in QueryOutcomes(vectorizer, document_data, vectors,
                                      query_text, n_results) }
  /\ call' = [op |-> "query", query_text |-> query_text,
              n_results |-> n_results]
  /\ UNCHANGED <<vectorizer, document_data, vectors, disk, corpus,
                 partial, env>>
  /\ UNCHANGED <<threads, memory>>

CountCall ==
  /\ call' = [op |-> "count"]
  /\ ret' = RETURNED(count)
  /\ UNCHANGED <<vectorizer, document_data, vectors, disk, corpus,
                 partial, env>>
  /\ UNCHANGED <<threads, memory>>

GetStatus ==
  /\ call' = [op |-> "get_status"]
  /\ ret' = RETURNED(get_status)
  /\ UNCHANGED <<vectorizer, document_data, vectors, disk, corpus,
                 partial, env>>
  /\ UNCHANGED <<threads, memory>>

(* ---------------------------------------------------------------------- *)
(* The outside world                                                       *)
(* ---------------------------------------------------------------------- *)
\* A chunk file is written, removed or made unreadable.
EditCorpus(name, st) ==
  /\ env < MaxEnv
  /\ corpus[name] # st
  /\ corpus' = [corpus EXCEPT ![name] = st]
  /\ env' = env + 1
  /\ call' = [op |-> "edit_corpus"]
  /\ ret' = RETURNED(None)
  /\ UNCHANGED <<vectorizer, document_data, vectors, disk, partial>>
  /\ UNCHANGED <<threads, memory>>

\* An artifact is deleted, damaged or replaced on disk.
DamageArtifact(a, st) ==
  /\ env < MaxEnv
  /\ disk[a] \notin {MISSING, st}
  /\ disk' = [disk EXCEPT ![a] = st]
  /\ env' = env + 1
  /\ call' = [op |-> "damage_artifact"]
  /\ ret' = RETURNED(None)
  /\ UNCHANGED <<vectorizer, document_data, vectors, corpus, partial>>
  /\ UNCHANGED <<threads, memory>>

Next ==
  \/ Construct
  \/ LoadModel
  \/ \E fail \in SaveFailures : SaveModel(fail)
  \/ \E force_reload \in BOOLEAN : LoadDocuments(force_reload)
  \/ \E query_text \in Queries, n_results \in 1..MaxLimit :
       Query(query_text, n_results)
  \/ CountCall
  \/ GetStatus
  \/ \E name \in DOMAIN corpus, st \in FileStates : EditCorpus(name, st)
  \/ \E a \in {"vectorizer", "documents", "vectors"}, st \in {MISSING, CORRUPT} :
       DamageArtifact(a, st)
  \/ \E records \in DeviantRecords :
       DamageArtifact("documents", JsonDump(records))

Spec == Init /\ [][Next]_vars

\* The same store beside a corpus directory of the two odd names.
InitNames == InitOver(OddNames)
SpecNames == InitNames /\ [][Next]_vars

(* ---------------------------------------------------------------------- *)
(* load_documents and query, statement by statement, in two threads        *)
(* ---------------------------------------------------------------------- *)
\* The reloading thread returns from load_documents.
ReloadReturns(outcome, scanned, save) ==
  /\ reload' = IdleReload
  /\ call' = [op |-> "load_documents", force_reload |-> reload.force_reload,
              scanned |-> scanned, save |-> save]
  /\ ret' = outcome

\* load_documents is called: the test of the early return.
ReloadCall(force_reload) ==
  /\ reload.pc = "idle"
  /\ IF Skips(force_reload, count)
     THEN /\ call' = [op |-> "load_documents", force_reload |-> force_reload,
                      scanned |-> FALSE, save |-> "none"]
          /\ ret' = RETURNED(None)
          /\ UNCHANGED reload
     ELSE /\ reload' = [IdleReload EXCEPT
                          !.pc = IF force_reload THEN "reset_records" ELSE "scan",
                          !.force_reload = force_reload]
          /\ UNCHANGED <<call, ret>>
  /\ UNCHANGED <<store, reader, memory>>

\* self.document_data = []
ReloadResetRecords ==
  /\ reload.pc = "reset_records"
  /\ document_data' = <<>>
  /\ reload' = [reload EXCEPT !.pc = "reset_vectors"]
  /\ UNCHANGED <<vectorizer, vectors, disk, corpus, partial, env, call, ret,
                 reader, memory>>

\* self.vectors = None
ReloadResetVectors ==
  /\ reload.pc = "reset_vectors"
  /\ vectors' = NONE
  /\ reload' = [reload EXCEPT !.pc = "scan"]
  /\ UNCHANGED <<vectorizer, document_data, disk, corpus, partial, env, call,
                 ret, reader, memory>>

\* glob and the loop over the chunk files, into the local lists; without any
\* document the call logs a warning and returns.
ReloadScan(chunk_files) ==
  /\ reload.pc = "scan"
  /\ LET records == ReadChunks(corpus, chunk_files)
     IN IF Contents(records) # <<>>
        THEN /\ reload' = [reload EXCEPT !.pc = "fit", !.records = records]
             /\ UNCHANGED <<call, ret>>
        ELSE ReloadReturns(RETURNED(None), TRUE, "none")
  /\ UNCHANGED <<store, reader, memory>>

\* self.vectorizer.fit_transform(documents): the vectorizer object is
\* refitted in place before the matrix is returned; an empty vocabulary
\* raises out of load_documents.
ReloadFit ==
  /\ reload.pc = "fit"
  /\ LET documents == Contents(reload.records)
     IN IF FitRaises(documents)
        THEN /\ ReloadReturns(RAISED("ValueError"), TRUE, "none")
             /\ UNCHANGED vectorizer
        ELSE /\ vectorizer' = Fit(documents)
             /\ reload' = [reload EXCEPT !.pc = "assign_vectors",
                                         !.matrix = FitTransform(documents)]
             /\ UNCHANGED <<call, ret>>
  /\ UNCHANGED <<document_data, vectors, disk, corpus, partial, env, reader,
                 memory>>

\* self.vectors = (the matrix fit_transform returned)
ReloadAssignVectors ==
  /\ reload.pc = "assign_vectors"
  /\ vectors' = reload.matrix
  /\ reload' = [reload EXCEPT !.pc = "assign_records"]
  /\ UNCHANGED <<vectorizer, document_data, disk, corpus, partial, env, call,
                 ret, reader, memory>>

\* self.document_data = document_data
ReloadAssignRecords ==
  /\ reload.pc = "assign_records"
  /\ document_data' = reload.records
  /\ reload' = [reload EXCEPT !.pc = "save"]
  /\ UNCHANGED <<vectorizer, vectors, disk, corpus, partial, env, call, ret,
                 reader, memory>>

\* self.save_model(), then the return.
ReloadSave(fail) ==
  /\ reload.pc = "save"
  /\ CanFail(fail, vectors)
  /\ disk' = SaveModelDisk(disk, vectorizer, document_data, vectors, fail)
  /\ SaveHistory(fail)
  /\ ReloadReturns(RETURNED(None), TRUE, Outcome(fail))
  /\ UNCHANGED <<vectorizer, document_data, vectors, corpus, env, reader,
                 memory>>

\* The querying thread returns from query; view is what it has read.
ReaderReturns(results, view) ==
  /\ reader' = [IdleReader EXCEPT !.view = view]
  /\ call' = [op |-> "query", query_text |-> reader.query_text,
              n_results |-> reader.n_results]
  /\ ret' = RETURNED(results)

\* query is called: the test "not self.document_data or self.vectors is None".
QueryCall(query_text, n_results) ==
  /\ reader.pc = "idle"
  /\ IF document_data = <<>> \/ vectors = NONE
     THEN /\ reader' = [IdleReader EXCEPT !.view = View(document_data, vectors)]
          /\ call' = [op |-> "query", query_text |-> query_text,
                      n_results |-> n_results]
          /\ ret' = RETURNED(<<>>)
     ELSE /\ reader' = [IdleReader EXCEPT
                          !.pc = "transform",
                          !.query_text = query_text,
                          !.n_results = n_results,
                          !.view = View(document_data, vectors)]
          /\ UNCHANGED <<call, ret>>
  /\ UNCHANGED <<store, reload, memory>>

\* query_vector = self.vectorizer.transform([query_text]); an unfitted
\* vectorizer raises into the except branch, which returns [].
QueryTransform ==
  /\ reader.pc = "transform"
  /\ IF vectorizer.fitted
     THEN /\ reader' = [reader EXCEPT
                          !.pc = "score",
                          !.query_vector = Transform(vectorizer, reader.query_text),
                          !.width = NFeatures(vectorizer)]
          /\ UNCHANGED <<call, ret>>
     ELSE ReaderReturns(<<>>, reader.view)
  /\ UNCHANGED <<store, reload, memory>>

\* similarities = cosine_similarity(query_vector, self.vectors).flatten(); no
\* matrix, or a matrix of another width, raises into the except branch.
QueryScore ==
  /\ reader.pc = "score"
  /\ IF vectors # NONE /\ vectors.ncols = reader.width
     THEN /\ reader' = [reader EXCEPT
                          !.pc = "collect",
                          !.sims = SimilaritiesOf(reader.query_vector, vectors),
                          !.scored = vectors]
          /\ UNCHANGED <<call, ret>>
     ELSE ReaderReturns(<<>>, reader.view)
  /\ UNCHANGED <<store, reload, memory>>

\* argsort, the slice, and the loop that reads self.document_data[idx]; an
\* index past the records raises into the except branch.
QueryCollect(order) ==
  /\ reader.pc = "collect"
  /\ LET top == TopIndices(order, reader.n_results)
         view == View(document_data, reader.scored)
     IN IF \E k \in 1..Len(top) :
             reader.sims[top[k]] > 0 /\ top[k] > Len(document_data)
        THEN ReaderReturns(<<>>, view)
        ELSE ReaderReturns(BuildResults(document_data, reader.sims, top), view)
  /\ UNCHANGED <<store, reload, memory>>

NextRace ==
  \/ \E force_reload \in BOOLEAN : ReloadCall(force_reload)
  \/ ReloadResetRecords
  \/ ReloadResetVectors
  \/ \E chunk_files \in Glob(corpus) : ReloadScan(chunk_files)
  \/ ReloadFit
  \/ ReloadAssignVectors
  \/ ReloadAssignRecords
  \/ \E fail \in SaveFailures : ReloadSave(fail)
  \/ \E query_text \in Queries, n_results \in 1..MaxLimit :
       QueryCall(query_text, n_results)
  \/ QueryTransform
  \/ QueryScore
  \/ \E order \in Argsort(reader.sims) : QueryCollect(order)
  \/ \E name \in DOMAIN corpus, st \in FileStates : EditCorpus(name, st)

\* One instance shared by the two threads, beside a corpus directory of one
\* chunk file.
InitRace == InitOver({BaseName(1)})
SpecRace == InitRace /\ [][NextRace]_vars

(* ---------------------------------------------------------------------- *)
(* RedisMemory: the same calls made on an instance that is connected to    *)
(* Redis and on an instance that fell back to its dict                     *)
(* ---------------------------------------------------------------------- *)
\* self.redis.get(key), then "json.loads(data) if data else <default>"
RedisGet(key, default) ==
  IF redis_db[key] # NIL THEN JsonLoads(redis_db[key]) ELSE default

\* self.fallback_storage.get(key, <default>): the dict holds the object it
\* was handed, not a copy, so the result is that object as it is now.
FallbackGet(key, default) ==
  IF fallback_storage[key] # NIL THEN heap[fallback_storage[key].to]
  ELSE default

\* What the call returned on the instance with Redis and on the one without.
Both(redis, fallback) == [redis |-> redis, fallback |-> fallback]

\* A call of the session store has returned.
MemoryReturns(op, user_id, result) ==
  /\ calls < MaxCalls
  /\ calls' = calls + 1
  /\ call' = [op |-> op, user_id |-> user_id]
  /\ ret' = result
  /\ UNCHANGED <<store, threads>>

\* The value behind ref is stored under the key: as JSON text in Redis, as
\* the object itself in the dict.
Store(key, ref, value) ==
  /\ redis_db' = [redis_db EXCEPT ![key] = JsonDumps(value)]
  /\ fallback_storage' = [fallback_storage EXCEPT ![key] = Reference(ref)]
  /\ saved' = [saved EXCEPT ![key] = value]

\* save_case_scenario(user_id, case_data): both branches set
\* case_data["updated_at"] in the caller's dict.
SaveCaseScenario(user_id, ref) ==
  /\ heap[ref].kind = "dict"
  /\ heap' = [heap EXCEPT ![ref].updated_at = Now]
  /\ Store(Key("case", user_id), ref, heap'[ref])
  /\ MemoryReturns("save_case_scenario", user_id, Both(TRUE, TRUE))

\* save_chat_history(user_id, messages)
SaveChatHistory(user_id, ref) ==
  /\ heap[ref].kind = "list"
  /\ Store(Key("chat", user_id), ref, heap[ref])
  /\ MemoryReturns("save_chat_history", user_id, Both(TRUE, TRUE))
  /\ UNCHANGED heap

\* save_user_data(user_id, user_data)
SaveUserData(user_id, ref) ==
  /\ heap[ref].kind = "dict"
  /\ Store(Key("user", user_id), ref, heap[ref])
  /\ MemoryReturns("save_user_data", user_id, Both(TRUE, TRUE))
  /\ UNCHANGED heap

\* get_case_scenario(user_id)
GetCaseScenario(user_id) ==
  /\ MemoryReturns("get_case_scenario", user_id,
                   Both(RedisGet(Key("case", user_id), NONE),
                        FallbackGet(Key("case", user_id), NONE)))
  /\ UNCHANGED <<heap, redis_db, fallback_storage, saved>>

\* get_chat_history(user_id)
GetChatHistory(user_id) ==
  /\ MemoryReturns("get_chat_history", user_id,
                   Both(RedisGet(Key("chat", user_id), List(<<>>)),
                        FallbackGet(Key("chat", user_id), List(<<>>))))
  /\ UNCHANGED <<heap, redis_db, fallback_storage, saved>>

\* get_user_data(user_id)
GetUserData(user_id) ==
  /\ MemoryReturns("get_user_data", user_id,
                   Both(RedisGet(Key("user", user_id), NONE),
                        FallbackGet(Key("user", user_id), NONE)))
  /\ UNCHANGED <<heap, redis_db, fallback_storage, saved>>

\* The caller changes an object it holds: a dict entry is set, a list is
\* appended to.
CallerChanges(ref, v) ==
  /\ heap' = IF heap[ref].kind = "dict"
             THEN [heap EXCEPT ![ref].note = v]
             ELSE [heap EXCEPT ![ref].items = Append(@, v)]
  /\ heap' # heap
  /\ heap[ref].kind = "list" => Len(heap[ref].items) < MaxMessages
  /\ MemoryReturns("caller_changes", "", RETURNED(None))
  /\ UNCHANGED <<redis_db, fallback_storage, saved>>

NextMemory ==
  \/ \E user_id \in Users, ref \in Refs : SaveCaseScenario(user_id, ref)
  \/ \E user_id \in Users, ref \in Refs : SaveChatHistory(user_id, ref)
  \/ \E user_id \in Users, ref \in Refs : SaveUserData(user_id, ref)
  \/ \E user_id \in Users : GetCaseScenario(user_id)
  \/ \E user_id \in Users : GetChatHistory(user_id)
  \/ \E user_id \in Users : GetUserData(user_id)
  \/ \E ref \in Refs, v \in Values : CallerChanges(ref, v)

SpecMemory == Init /\ [][NextMemory]_vars

(* ---------------------------------------------------------------------- *)
(* Properties                                                              *)
(* ---------------------------------------------------------------------- *)
\* What every query of the model's query set may return on the index idx.
Answers(idx) ==
  [q \in Queries, k \in 1..MaxLimit |->
     QueryOutcomes(idx.vectorizer, idx.document_data, idx.vectors, q, k)]

\* The three artifacts are the ones one save of idx writes when nothing fails.
SavedOnDisk(idx) ==
  disk = SaveModelDisk(NO_DISK, idx.vectorizer, idx.document_data,
                       idx.vectors, NoFailure)

\* An index whose model and matrix are the fit of its own records.
Coherent(idx) ==
  /\ idx.document_data # <<>>
  /\ idx.vectorizer = Fit(Contents(idx.document_data))
  /\ idx.vectors = FitTransform(Contents(idx.document_data))

\* C1 (round-trip persistence): when a reload has fitted a non-empty corpus
\* and its save completed, a VectorStore constructed next over the same
\* artifacts has the same records, vectors and model, and answers every query
\* as the instance that saved.
C1_RoundTrip ==
  [][ ( /\ call.op = "load_documents" /\ call.save = "saved"
        /\ SavedOnDisk(index)
        /\ call'.op = "__init__" )
      => ( /\ document_data' = document_data
           /\ vectors' = vectors
           /\ vectorizer' = vectorizer
           /\ Answers(index') = Answers(index) ) ]_vars

C3_NoMixedIndex ==
  (partial /\ call.op = "__init__") => (index = EMPTY_INDEX \/ Coherent(index))

\* C3 witness: a store constructed over three existing artifacts of which the
\* matrix is not the one of the records beside it.
C3_Witness ==
  /\ partial /\ call.op = "__init__"
  /\ disk.vectorizer.kind = "pickle"
  /\ disk.documents.kind = "json"
  /\ disk.vectors.kind = "npy"
  /\ disk.documents.obj # <<>>
  /\ disk.vectors.obj # FitTransform(Contents(disk.documents.obj))

\* C4 (load fallback): after a construction or a load_model over artifacts of
\* which one is missing or damaged, the call has returned and the index is
\* empty with a new unfitted model.
C4_LoadFallback ==
  ( /\ call.op \in {"__init__", "load_model"}
    /\ \E a \in DOMAIN disk : disk[a] \in {MISSING, CORRUPT} )
  => (ret = RETURNED(None) /\ index = EMPTY_INDEX)

\* C4 witness: load_model read the model and the records, then failed on the
\* matrix, on an instance that held documents before.
C4_Witness ==
  /\ call.op = "load_model"
  /\ disk.vectorizer.kind = "pickle" /\ disk.vectorizer.obj.fitted
  /\ disk.documents.kind = "json" /\ disk.documents.obj # <<>>
  /\ disk.vectors \in {MISSING, CORRUPT}
  /\ index = EMPTY_INDEX

\* The place of the record with the given id in the document order.
Position(id) ==
  CHOOSE n \in 1..Len(document_data) : document_data[n].id = id

Min(a, b) == IF a <= b THEN a ELSE b

\* C5 (tie-breaking): of two returned documents with equal similarity, the
\* one earlier in the document order is ranked first.
C5_TiesInDocumentOrder ==
  call.op = "query" =>
    \A i, j \in 1..Len(ret.value) :
      (i < j /\ ret.value[i].similarity = ret.value[j].similarity)
        => Position(ret.value[i].id) < Position(ret.value[j].id)

\* C6 (top-K, positive only): on a loaded index a query with limit K returns
\* min(K, P) results, P being the number of documents of positive similarity;
\* every result is positive and no document left out beats a returned one.
C6_TopKPositive ==
  (call.op = "query" /\ document_data # <<>> /\ vectors # NONE) =>
    LET sims == Similarities(vectorizer, vectors, call.query_text)
        P == Cardinality({ n \in DOMAIN sims : sims[n] > 0 })
        r == ret.value
    IN /\ Len(r) = Min(call.n_results, P)
       /\ \A i \in 1..Len(r) : r[i].similarity > 0
       /\ \A n \in 1..Len(document_data) :
            (\A i \in 1..Len(r) : r[i].id # document_data[n].id)
              => \A i \in 1..Len(r) : sims[n] <= r[i].similarity

\* C6 witness: limit 2 on two documents of which one has similarity 0: one
\* result.
C6_Witness ==
  /\ call.op = "query" /\ call.n_results = 2
  /\ Len(document_data) = 2 /\ vectors # NONE
  /\ Len(ret.value) = 1
  /\ \E n \in 1..2 : Similarities(vectorizer, vectors, call.query_text)[n] = 0

\* C7 (monotonic ranking): the similarities of a query's results do not
\* increase along the ranks.
C7_Monotonic ==
  call.op = "query" =>
    \A i \in 1..(Len(ret.value) - 1) :
      ret.value[i].similarity >= ret.value[i + 1].similarity

\* C7 witness: two results of different similarity.
C7_Witness ==
  /\ call.op = "query"
  /\ Len(ret.value) = 2
  /\ ret.value[1].similarity > ret.value[2].similarity

\* C8 (errors never reach the caller): every operation returns normally.
C8_NoErrorEscapes == ret.kind = "return"

\* C9 (save failure is contained): a save_model that fails returns normally
\* and leaves the model, the records and the matrix as they were; a query
\* reads nothing else, so every query is answered as before.
C9_SaveFailureContained ==
  [][ (call'.op = "save_model" /\ call'.save = "failed")
      => ( /\ ret'.kind = "return"
           /\ vectorizer' = vectorizer
           /\ document_data' = document_data
           /\ vectors' = vectors ) ]_vars

\* C9 witness: a save of a populated index failed and left a damaged artifact.
C9_Witness ==
  /\ call.op = "save_model" /\ call.save = "failed"
  /\ document_data # <<>> /\ vectors # NONE
  /\ \E a \in DOMAIN disk : disk[a] = CORRUPT

\* C10 (idempotent reload): load_documents(force_reload=False) on an instance
\* with documents does not scan and leaves the records, the matrix, the model
\* and the artifacts as they were.
C10_ReloadIsNoOp ==
  [][ (count > 0 /\ call'.op = "load_documents" /\ ~call'.force_reload)
      => ( /\ ~call'.scanned
           /\ ret' = RETURNED(None)
           /\ UNCHANGED <<vectorizer, document_data, vectors, disk>> ) ]_vars

\* C10 witness: the reload was skipped although the corpus no longer is what
\* the index was built from.
C10_Witness ==
  /\ call.op = "load_documents" /\ ~call.force_reload /\ ~call.scanned
  /\ count > 0
  /\ \A chunk_files \in Glob(corpus) :
       ReadChunks(corpus, chunk_files) # document_data


\* C11 (empty-state query): a query on an instance without document records
\* or without a vector matrix, whatever the text and the limit, returns the
\* empty sequence, raises nothing, and leaves the vectorizer, the records, the
\* matrix and the artifacts as they were.
C11_EmptyStateQuery ==
  [][ (call'.op = "query" /\ (document_data = <<>> \/ vectors = NONE))
        => /\ ret' = RETURNED(<<>>)
           /\ UNCHANGED <<vectorizer, document_data, vectors, disk>> ]_vars

\* A query answered [] by an instance that was emptied by a forced reload (its
\* vectorizer is still the fitted one of the earlier load).
C11_Witness ==
  /\ call.op = "query"
  /\ document_data = <<>>
  /\ vectors = NONE
  /\ vectorizer.fitted
  /\ ret = RETURNED(<<>>)


\* The matching files of the directory that are readable and non-empty after
\* trimming.
Usable(dir) ==
  { name \in DOMAIN dir :
      /\ MatchesPattern(name)
      /\ dir[name].kind = "text"
      /\ \E k \in 1..Len(dir[name].raw) : dir[name].raw[k] # WS }

WellFormed(records) ==
  \A i \in 1..Len(records) : DOMAIN records[i] = RecordFields

RecordsOf(name) ==
  { i \in 1..Len(document_data) :
      document_data[i].metadata.source = FilePath(name) }

\* C14 (corpus loader retention): after a reload that scanned the corpus the
\* instance holds exactly one record for every matching file that is
\* readable and non-empty after trimming, and no other record.
C14_LoaderRetention ==
  (call.op = "load_documents" /\ call.scanned)
    => /\ Len(document_data) = Cardinality(Usable(corpus))
       /\ \A name \in Usable(corpus) : Cardinality(RecordsOf(name)) = 1

\* C15 (unique document ids): after a reload the ids of the records are
\* pairwise distinct.
C15_UniqueIds ==
  call.op = "load_documents"
    => \A i, j \in 1..Len(document_data) :
         i # j => document_data[i].id # document_data[j].id

\* A name with no ".txt" but its extension.
PlainName(name) ==
  \A k \in 1..(Len(name) - 1) : name[k] # ".txt"

\* C16 as stated (document id derivation): the id of the record of a file
\* <prefix>_<id>.txt is the name without the prefix and without the
\* extension, that is <id>.
C16_IdIsBareId ==
  \A i \in 1..Len(document_data) :
    LET name == document_data[i].metadata.source.name
    IN document_data[i].id = SubSeq(name, 2, Len(name) - 1)

\* C16 as amended: the id of the record of a file me_chunk_<id>.txt whose
\* <id> holds no ".txt" is the name without the extension, the prefix kept:
\* me_chunk_<id>.
C16_IdKeepsPrefix ==
  \A i \in 1..Len(document_data) :
    LET name == document_data[i].metadata.source.name
    IN PlainName(name) => document_data[i].id = SubSeq(name, 1, Len(name) - 1)

\* A reload has made the record of me_chunk_1.txt.
C16_Witness ==
  /\ call.op = "load_documents" /\ call.scanned
  /\ \E i \in 1..Len(document_data) :
       /\ document_data[i].metadata.source.name = <<"me_chunk_", "1", ".txt">>
       /\ document_data[i].id = <<"me_chunk_", "1">>


\* What a query has read belongs to one index: no records and no matrix, or
\* records and the matrix fitted from them.
ConsistentView(view) ==
  IF view.records = <<>>
  THEN view.vectors = NONE
  ELSE view.vectors = FitTransform(Contents(view.records))

\* C17 (atomic visibility of a reindex): what a query that runs beside
\* load_documents has read, in its test of the empty index and in its scoring
\* and collecting, is the fully old or the fully new index: never the matrix
\* of one index with the records of the other, never the records cleared
\* beside the old matrix.
C17_AtomicReindex == ConsistentView(reader.view)


\* C18 (query is read-only): a query, whatever the instance state, the text
\* and the limit, leaves the vectorizer, the records, the matrix and the three
\* artifacts as they were, and what it returns after any history of calls is
\* a result of that query on the index as it stands.
C18_QueryReadOnly ==
  [][ call'.op = "query"
        => /\ UNCHANGED <<vectorizer, document_data, vectors, disk>>
           /\ ret'.kind = "return"
           /\ ret'.value \in QueryOutcomes(vectorizer', document_data', vectors',
                                            call'.query_text, call'.n_results) ]_vars

\* A query has returned two results from an index that was saved.
C18_Witness ==
  /\ call.op = "query"
  /\ ret.kind = "return"
  /\ Len(ret.value) = 2
  /\ disk.vectors # MISSING


\* C19 (memory and disk agree after a reload): when load_documents has
\* returned without a failed write, a VectorStore constructed next over the
\* same artifacts has as many records as the instance that reloaded, with the
\* same ids in the same order.
C19_MemoryMatchesDisk ==
  [][ ( /\ call.op = "load_documents"
        /\ call.save # "failed"
        /\ ret.kind = "return"
        /\ call'.op = "__init__" )
      => ( /\ Len(document_data') = Len(document_data)
           /\ \A i \in 1..Len(document_data) :
                document_data'[i].id = document_data[i].id ) ]_vars


\* The kind of value a get operation reads, and what it returns when nothing
\* was saved.
GetKind ==
  [op \in {"get_case_scenario", "get_chat_history", "get_user_data"} |->
     IF op = "get_case_scenario" THEN "case"
     ELSE IF op = "get_chat_history" THEN "chat" ELSE "user"]
GetDefault ==
  [op \in DOMAIN GetKind |-> IF op = "get_chat_history" THEN List(<<>>) ELSE NONE]

\* C20 (session-store backend equivalence): every get returns, on the
\* instance with Redis and on the instance with the fallback dict alike, the
\* value as it was when it was last saved for that user and kind, or None /
\* the empty list when nothing was saved, whatever was saved for other users
\* and kinds and whatever the caller did to its objects since.
C20_BackendsEquivalent ==
  call.op \in DOMAIN GetKind
    => LET key == Key(GetKind[call.op], call.user_id)
           expected == IF saved[key] = NIL THEN GetDefault[call.op]
                       ELSE saved[key]
       IN ret.redis = expected /\ ret.fallback = expected

====
